---- MODULE Spec2Model ----
(***************************************************************************)
(* OpenPGP packet framing of openpgp-parser/src/packet.rs: the packet      *)
(* decoder `next` (old and new format), the new-format length reader       *)
(* `get_varlen_bytes` and the encoder `Packet::serialize`.                   *)
(*                                                                         *)
(* A byte is an integer in 0..255, a byte vector a sequence of bytes.  A   *)
(* borrowed slice (&'a [u8]) is a view [off, len] into the vector it       *)
(* borrows from: the bytes off+1 .. off+len of that vector.  The Reader is *)
(* a cursor [end, pos] over the first `end` bytes of `serialized`.         *)
(***************************************************************************)
EXTENDS Integers, Sequences, FiniteSets

VARIABLES
    serialized, \* the byte vector the Reader borrows from
    packets,    \* the packets written into `serialized`, in order
    reader,     \* the Reader: [end, pos], pos bytes consumed of the first `end`
    results,    \* what each call of next returned, with the cursor before and after
    pc          \* "write" while `serialized` is assembled, "read" once a Reader borrows it

vars == <<serialized, packets, reader, results, pc>>

----------------------------------------------------------------------------
(* Bounds of the model *)

\* calls of next made on one Reader
MaxCalls == 3
\* bytes that follow the first byte of an arbitrary input, before its filler
MaxLenField == 4

----------------------------------------------------------------------------
(* u8 and usize arithmetic *)

RECURSIVE BitAnd(_, _)
\* a & b on naturals, bit by bit
BitAnd(a, b) ==
    IF a = 0 \/ b = 0 THEN 0
    ELSE (IF a % 2 = 1 /\ b % 2 = 1 THEN 1 ELSE 0) + 2 * BitAnd(a \div 2, b \div 2)

RECURSIVE BitOr(_, _)
\* a | b on naturals, bit by bit
BitOr(a, b) ==
    IF a = 0 THEN b
    ELSE IF b = 0 THEN a
    ELSE (IF a % 2 = 1 \/ b % 2 = 1 THEN 1 ELSE 0) + 2 * BitOr(a \div 2, b \div 2)

\* x >> n
Shr(x, n) == x \div (2 ^ n)

\* x << n (no bit is shifted out at the widths used)
Shl(x, n) == x * (2 ^ n)

\* `x as u8`
AsU8(x) == x % 256

\* The largest integer the model checker holds.  A usize above it is
\* represented by it: every buffer of the model is shorter, so
\* Reader::get_bytes fails for it exactly as for the value itself.
UsizeCap == (2 ^ 30 - 1) * 2 + 1

\* `len << 8 | i` on usize, for a byte i
ShlOr8(len, i) == IF len >= 2 ^ 23 THEN UsizeCap ELSE BitOr(Shl(len, 8), i)

RECURSIVE BigEndian(_, _)
\* the fold `len = len << 8 | i` over the bytes bs, from len = acc
BigEndian(acc, bs) ==
    IF bs = <<>> THEN acc ELSE BigEndian(ShlOr8(acc, Head(bs)), Tail(bs))

----------------------------------------------------------------------------
(* The Reader (super::Reader) *)

\* Reader::new(&serialized[..k])
ReaderNew(k) == [end |-> k, pos |-> 0]

\* Reader::len: the bytes not yet consumed
ReaderLen(r) == r.end - r.pos

\* the bytes a slice views
SliceBytes(s) == SubSeq(serialized, s.off + 1, s.off + s.len)

NoSlice == [off |-> 0, len |-> 0]

\* Reader::get_bytes(n): the next n bytes, consumed; PrematureEOF and nothing
\* consumed when fewer remain
get_bytes(r, n) ==
    IF n > ReaderLen(r)
    THEN [ok |-> FALSE, val |-> NoSlice, reader |-> r]
    ELSE [ok |-> TRUE, val |-> [off |-> r.pos, len |-> n],
          reader |-> [r EXCEPT !.pos = r.pos + n]]

\* Reader::byte(): one byte, consumed; PrematureEOF when none remains
byte(r) ==
    IF ReaderLen(r) = 0
    THEN [ok |-> FALSE, val |-> 0, reader |-> r]
    ELSE [ok |-> TRUE, val |-> serialized[r.pos + 1],
          reader |-> [r EXCEPT !.pos = r.pos + 1]]

\* Reader::maybe_byte(): Some(byte), consumed, or None at the end of the input
maybe_byte(r) == byte(r)

\* Reader::be_u32(): four bytes, consumed, as a big-endian integer
be_u32(r) ==
    LET b == get_bytes(r, 4)
    IN  IF b.ok
        THEN [ok |-> TRUE, val |-> BigEndian(0, SliceBytes(b.val)), reader |-> b.reader]
        ELSE [ok |-> FALSE, val |-> 0, reader |-> b.reader]

----------------------------------------------------------------------------
(* Results of the decoder *)

\* Ok(Some(Packet { tag, buffer }))
OkSome(tag, buffer) ==
    [kind |-> "Packet", tag |-> tag, buffer |-> buffer, err |-> "-"]

\* Ok(None)
OkNone == [kind |-> "None", tag |-> 0, buffer |-> NoSlice, err |-> "-"]

\* Err(e)
Err(e) == [kind |-> "Err", tag |-> 0, buffer |-> NoSlice, err |-> e]

\* a result and the Reader it leaves
Ret(res, r) == [res |-> res, reader |-> r]

----------------------------------------------------------------------------
(* get_varlen_bytes *)

\* varlen_len with the two-byte form's `+ 192` left out
varlen_len_no_bias(keybyte, r) ==
    IF keybyte <= 191
    THEN [ok |-> TRUE, val |-> keybyte, err |-> "-", reader |-> r]
    ELSE IF keybyte <= 223
    THEN LET b == byte(r)
         IN  IF b.ok
             THEN [ok |-> TRUE, val |-> Shl(keybyte - 192, 8) + b.val,
                   err |-> "-", reader |-> b.reader]
             ELSE [ok |-> FALSE, val |-> 0, err |-> "PrematureEOF", reader |-> b.reader]
    ELSE IF keybyte = 255
    THEN LET w == be_u32(r)
         IN  IF w.ok
             THEN [ok |-> TRUE, val |-> w.val, err |-> "-", reader |-> w.reader]
             ELSE [ok |-> FALSE, val |-> 0, err |-> "PrematureEOF", reader |-> w.reader]
    ELSE [ok |-> FALSE, val |-> 0, err |-> "PartialLength", reader |-> r]

\* varlen_len with the keybytes 224..254 read as the two-byte form (`192...254`)
varlen_len_partial_as_two(keybyte, r) ==
    IF keybyte <= 191
    THEN [ok |-> TRUE, val |-> keybyte, err |-> "-", reader |-> r]
    ELSE IF keybyte <= 254
    THEN LET b == byte(r)
         IN  IF b.ok
             THEN [ok |-> TRUE, val |-> Shl(keybyte - 192, 8) + b.val + 192,
                   err |-> "-", reader |-> b.reader]
             ELSE [ok |-> FALSE, val |-> 0, err |-> "PrematureEOF", reader |-> b.reader]
    ELSE LET w == be_u32(r)
         IN  IF w.ok
             THEN [ok |-> TRUE, val |-> w.val, err |-> "-", reader |-> w.reader]
             ELSE [ok |-> FALSE, val |-> 0, err |-> "PrematureEOF", reader |-> w.reader]

\* the length a keybyte selects, given the Reader after the keybyte:
\* [ok, val (the length), reader] or the error
varlen_len(keybyte, r) ==
    IF keybyte <= 191
    THEN [ok |-> TRUE, val |-> keybyte, err |-> "-", reader |-> r]
    ELSE IF keybyte <= 223
    THEN LET b == byte(r)
         IN  IF b.ok
             THEN [ok |-> TRUE, val |-> Shl(keybyte - 192, 8) + b.val + 192,
                   err |-> "-", reader |-> b.reader]
             ELSE [ok |-> FALSE, val |-> 0, err |-> "PrematureEOF", reader |-> b.reader]
    ELSE IF keybyte = 255
    THEN LET w == be_u32(r)
         IN  IF w.ok
             THEN [ok |-> TRUE, val |-> w.val, err |-> "-", reader |-> w.reader]
             ELSE [ok |-> FALSE, val |-> 0, err |-> "PrematureEOF", reader |-> w.reader]
    ELSE [ok |-> FALSE, val |-> 0, err |-> "PartialLength", reader |-> r]

\* get_varlen_bytes(reader): [ok, val (the content slice), err, reader]
get_varlen_bytes(r) ==
    LET k == byte(r)
    IN  IF ~k.ok
        THEN [ok |-> FALSE, val |-> NoSlice, err |-> "PrematureEOF", reader |-> k.reader]
        ELSE LET l == varlen_len(k.val, k.reader)
             IN  IF ~l.ok
                 THEN [ok |-> FALSE, val |-> NoSlice, err |-> l.err, reader |-> l.reader]
                 ELSE LET c == get_bytes(l.reader, l.val)
                      IN  IF c.ok
                          THEN [ok |-> TRUE, val |-> c.val, err |-> "-", reader |-> c.reader]
                          ELSE [ok |-> FALSE, val |-> NoSlice, err |-> "PrematureEOF",
                                reader |-> c.reader]

----------------------------------------------------------------------------
(* next *)

\* lenlen with the selector ignored: a one-byte length field always
lenlen_one(tagbyte) == 1

\* `1u8 << (tagbyte & 0b11)`
lenlen(tagbyte) == Shl(1, BitAnd(tagbyte, 3))

\* old_tag without the shift: `0xF & tagbyte`
old_tag_noshift(tagbyte) == BitAnd(15, tagbyte)

\* `0xF & (tagbyte >> 2)`
old_tag(tagbyte) == BitAnd(15, Shr(tagbyte, 2))

\* new_tag with a five-bit mask: `tagbyte & 0x1F`
new_tag_5bit(tagbyte) == BitAnd(tagbyte, 31)

\* `tagbyte & 0x3F`
new_tag(tagbyte) == BitAnd(tagbyte, 63)

\* the old-format branch: [ok, tag, val (the content slice), err, reader]
next_old(tagbyte, r) ==
    IF lenlen(tagbyte) > 4
    THEN [ok |-> FALSE, tag |-> 0, val |-> NoSlice, err |-> "PartialLength", reader |-> r]
    ELSE LET lb == get_bytes(r, lenlen(tagbyte))
         IN  IF ~lb.ok
             THEN [ok |-> FALSE, tag |-> 0, val |-> NoSlice, err |-> "PrematureEOF",
                   reader |-> lb.reader]
             ELSE LET len == BigEndian(0, SliceBytes(lb.val))
                      c   == get_bytes(lb.reader, len)
                  IN  IF ~c.ok
                      THEN [ok |-> FALSE, tag |-> 0, val |-> NoSlice,
                            err |-> "PrematureEOF", reader |-> c.reader]
                      ELSE [ok |-> TRUE, tag |-> old_tag(tagbyte), val |-> c.val,
                            err |-> "-", reader |-> c.reader]

\* the new-format branch: [ok, tag, val (the content slice), err, reader]
next_new(tagbyte, r) ==
    LET b == get_varlen_bytes(r)
    IN  IF ~b.ok
        THEN [ok |-> FALSE, tag |-> 0, val |-> NoSlice, err |-> b.err, reader |-> b.reader]
        ELSE [ok |-> TRUE, tag |-> new_tag(tagbyte), val |-> b.val, err |-> "-",
              reader |-> b.reader]

\* check_tag without the check
check_tag_any(tag, buffer) == OkSome(tag, buffer)

\* `if packet.tag != 0 { Ok(Some(packet)) } else { Err(Error::BadTag) }`
check_tag(tag, buffer) ==
    IF tag # 0 THEN OkSome(tag, buffer) ELSE Err("BadTag")

\* the packet after tag byte tagbyte (bit 7 set): old or new format, then the
\* tag check
decode(tagbyte, r) ==
    LET p == IF BitAnd(tagbyte, 64) = 0
             THEN next_old(tagbyte, r)
             ELSE next_new(tagbyte, r)
    IN  IF ~p.ok THEN Ret(Err(p.err), p.reader)
        ELSE Ret(check_tag(p.tag, p.val), p.reader)

\* next with a first byte whose bit 7 is clear taken for the end of the stream
next_eos_on_bad_first(r) ==
    LET t == maybe_byte(r)
    IN  IF ~t.ok THEN Ret(OkNone, t.reader)
        ELSE IF BitAnd(t.val, 128) = 0 THEN Ret(OkNone, t.reader)
        ELSE decode(t.val, t.reader)

\* next with a first byte whose bit 7 is clear looked at but not consumed
next_peek_first(r) ==
    LET t == maybe_byte(r)
    IN  IF ~t.ok THEN Ret(OkNone, t.reader)
        ELSE IF BitAnd(t.val, 128) = 0 THEN Ret(Err("PacketFirstBitZero"), r)
        ELSE decode(t.val, t.reader)

\* next with the cursor put back where it was when the input is cut short
next_rollback(r) ==
    LET t == maybe_byte(r)
        o == IF ~t.ok THEN Ret(OkNone, t.reader)
             ELSE IF BitAnd(t.val, 128) = 0
             THEN Ret(Err("PacketFirstBitZero"), t.reader)
             ELSE decode(t.val, t.reader)
    IN  IF o.res = Err("PrematureEOF") THEN Ret(o.res, r) ELSE o

\* next(reader): the result and the Reader it leaves
next(r) ==
    LET t == maybe_byte(r)
    IN  IF ~t.ok THEN Ret(OkNone, t.reader)
        ELSE IF BitAnd(t.val, 128) = 0 THEN Ret(Err("PacketFirstBitZero"), t.reader)
        ELSE decode(t.val, t.reader)

----------------------------------------------------------------------------
(* Arbitrary input *)

\* first bytes: bit 7 clear; old format with tag 0 (selectors 0 and 3) and with
\* tag 4 (every selector); new format with tags 0, 1 and 63
FirstBytes == {2, 128, 131, 144, 145, 146, 147, 192, 193, 255}

\* the bytes after the first: lengths 0 and 2, a two-byte keybyte that is also
\* a new-format tag byte, a partial-length keybyte, the five-byte keybyte
LenBytes == {0, 2, 193, 224, 255}

\* lengths of the filler that ends an input whose length field is lf: none,
\* a few bytes, and after a field of at most two bytes (a keybyte of the
\* two-byte form and its second byte) the content such a field declares
FillLens(lf) == IF Len(lf) <= 2 THEN {0, 3, 450} ELSE {0, 3}

\* the filler: 2, 3, 4, ...
Fill(n) == [i \in 1 .. n |-> (i + 1) % 256]

\* the length fields: the sequences over LenBytes of at most MaxLenField bytes
LenFields == UNION {[1 .. k -> LenBytes] : k \in 0 .. MaxLenField}

\* an input: a first byte, a length field, a filler
RawInput(t, lf, n) == <<t>> \o lf \o Fill(n)

----------------------------------------------------------------------------
(* The decoder over arbitrary input *)

\* a Reader over the empty input or over an arbitrary input
RawInit ==
    /\ \/ serialized = <<>>
       \/ \E t \in FirstBytes, lf \in LenFields :
              \E n \in FillLens(lf) : serialized = RawInput(t, lf, n)
    /\ packets = <<>>
    /\ reader = ReaderNew(Len(serialized))
    /\ results = <<>>
    /\ pc = "read"

\* one call of next on the Reader
CallNext ==
    /\ pc = "read"
    /\ Len(results) < MaxCalls
    /\ LET o == next(reader)
       IN  /\ reader' = o.reader
           /\ results' = Append(results,
                  [res |-> o.res, before |-> reader.pos, after |-> o.reader.pos])
    /\ UNCHANGED <<serialized, packets, pc>>

RawNext == CallNext

Spec == RawInit /\ [][RawNext]_vars

----------------------------------------------------------------------------
(* Packet::serialize *)

\* serialize with the one-byte form kept up to 192 (`0...192`)
serialize_one_byte_192(tag, buffer) ==
    LET len == Len(buffer)
        tag_byte == BitOr(tag, 192)
        v == IF len <= 192
             THEN <<tag_byte, AsU8(len)>>
             ELSE IF len <= 8383
             THEN <<tag_byte, AsU8(Shr(len - 192, 8)) + 192, AsU8(len - 192)>>
             ELSE <<tag_byte, 255, AsU8(Shr(len, 24)), AsU8(Shr(len, 16)),
                    AsU8(Shr(len, 8)), AsU8(len)>>
    IN  v \o buffer

\* Packet { tag, buffer }.serialize(), buffer a byte sequence
serialize(tag, buffer) ==
    LET len == Len(buffer)
        tag_byte == BitOr(tag, 192)
        v == IF len <= 191
             THEN <<tag_byte, AsU8(len)>>
             ELSE IF len <= 8383
             THEN <<tag_byte, AsU8(Shr(len - 192, 8)) + 192, AsU8(len - 192)>>
             ELSE <<tag_byte, 255, AsU8(Shr(len, 24)), AsU8(Shr(len, 16)),
                    AsU8(Shr(len, 8)), AsU8(len)>>
    IN  v \o buffer

----------------------------------------------------------------------------
(* The packets the tests frame *)

\* the source buffers content slices are taken from (the tests' `buffer`)
Sources == {0}

\* `&buffer[..j]` of source buffer src: byte i is src + 7 i (mod 256)
Content(src, j) == [i \in 1 .. j |-> (src + 7 * i) % 256]

\* content lengths: both ends of each of the three length regimes
ContentLens == {0, 1, 191, 192, 8383, 8384}

\* tags given to serialize: both ends of 1..63, the reserved 0, and the 8-bit
\* 0x4F and 0xFF
SerializeTags == {0, 1, 63, 79, 255}

\* old-format tags and content lengths
OldTags == {4, 15}
OldLens == {0, 1, 192}

\* the length len as n big-endian bytes (`(len >> 8) as _`, `len as _`, ...)
be_bytes(len, n) == [i \in 1 .. n |-> AsU8(Shr(len, 8 * (n - i)))]

\* old_format_parsing's buffer: `buffer[0] = 0x80 | sel | tag << 2`, the length
\* in 1 << sel big-endian bytes, then the content
old_format(tag, sel, buffer) ==
    <<BitOr(BitOr(128, sel), Shl(tag, 2))>> \o be_bytes(Len(buffer), 2 ^ sel) \o buffer

----------------------------------------------------------------------------
(* Encoding, then decoding *)

\* bytes of one stream, a packet counted with the longest header (6 bytes):
\* room for the longest encoding
MaxStreamLen == 8390
\* packets of one stream
MaxPackets == 2
\* a short Reader ends within MaxCut bytes of either end of the encoding
MaxCut == 100

CodecInit ==
    /\ serialized = <<>>
    /\ packets = <<>>
    /\ reader = ReaderNew(0)
    /\ results = <<>>
    /\ pc = "write"

\* a packet framed by Packet::serialize is appended to the stream
Serialize(tag, src, j) ==
    /\ pc = "write"
    /\ Len(packets) < MaxPackets
    /\ Len(serialized) + j + 6 <= MaxStreamLen
    /\ serialized' = serialized \o serialize(tag, Content(src, j))
    /\ packets' = Append(packets,
           [format |-> "New", tag |-> tag, src |-> src, len |-> j, sel |-> 0,
            at |-> Len(serialized)])
    /\ UNCHANGED <<reader, results, pc>>

\* a packet in old format is written at the start of the buffer, as
\* old_format_parsing frames it (`buffer[0] = ...`)
WriteOld(tag, sel, src, j) ==
    /\ pc = "write"
    /\ packets = <<>>
    /\ j + 6 <= MaxStreamLen
    /\ serialized' = old_format(tag, sel, Content(src, j))
    /\ packets' = Append(packets,
           [format |-> "Old", tag |-> tag, src |-> src, len |-> j, sel |-> sel,
            at |-> Len(serialized)])
    /\ UNCHANGED <<reader, results, pc>>

\* `Reader::new(&serialized)`
FullReader ==
    /\ pc = "write"
    /\ packets # <<>>
    /\ reader' = ReaderNew(Len(serialized))
    /\ pc' = "read"
    /\ UNCHANGED <<serialized, packets, results>>

\* the prefix lengths of an n-byte encoding a short Reader is made over
CutPoints(n) == {k \in (0 .. MaxCut) \cup (n - MaxCut .. n - 1) : 0 <= k /\ k < n}

\* `Reader::new(&serialized[..k])` over one encoded packet, k short of its end
ShortReader(k) ==
    /\ pc = "write"
    /\ Len(packets) = 1
    /\ reader' = ReaderNew(k)
    /\ pc' = "read"
    /\ UNCHANGED <<serialized, packets, results>>

CodecNext ==
    \/ \E tag \in SerializeTags, src \in Sources, j \in ContentLens :
          Serialize(tag, src, j)
    \/ \E tag \in OldTags, sel \in 0 .. 2, src \in Sources, j \in OldLens :
          WriteOld(tag, sel, src, j)
    \/ FullReader
    \/ \E k \in CutPoints(Len(serialized)) : ShortReader(k)
    \/ CallNext

SpecCodec == CodecInit /\ [][CodecNext]_vars

----------------------------------------------------------------------------
(* The wire format, by arithmetic: what the properties compare the decoder to *)

\* the calls made so far
Calls == 1 .. Len(results)

RECURSIVE Unsigned(_)
\* the bytes bs as one unsigned big-endian integer (UsizeCap from 2^31 on)
Unsigned(bs) ==
    IF bs = <<>> THEN 0
    ELSE IF Len(bs) >= 4 /\ bs[Len(bs) - 3] >= 128 THEN UsizeCap
    ELSE 256 * Unsigned(SubSeq(bs, 1, Len(bs) - 1)) + bs[Len(bs)]

\* the first byte a call of next met (the call did not start at the end)
FirstByte(e) == serialized[e.before + 1]

\* the call started with at least one byte unread
MetByte(e) == e.before < reader.end

\* the tag a tag byte carries: bits 5..2 in old format, bits 5..0 in new format
WireTag(t) == IF t < 192 THEN (t \div 4) % 16 ELSE t % 64

\* The header that starts at offset at of an input of end bytes, whose first
\* byte has bit 7 set: partial (an unsupported length form), complete (the
\* whole length field is there), hdr (tag byte plus length field), len (the
\* length declared).
WireHeader(at, end) ==
    LET t   == serialized[at + 1]
        old == t < 192
        k   == IF ~old /\ at + 2 <= end THEN serialized[at + 2] ELSE 0
        n   == IF old THEN 2 ^ (t % 4)
               ELSE IF k <= 191 THEN 1 ELSE IF k <= 223 THEN 2
               ELSE IF k = 255 THEN 5 ELSE 1
        partial  == IF old THEN t % 4 = 3 ELSE k >= 224 /\ k <= 254
        complete == ~partial /\ at + 1 + n <= end
        len == IF ~complete THEN 0
               ELSE IF old THEN Unsigned(SubSeq(serialized, at + 2, at + 1 + n))
               ELSE IF k <= 191 THEN k
               ELSE IF k <= 223 THEN (k - 192) * 256 + serialized[at + 3] + 192
               ELSE Unsigned(SubSeq(serialized, at + 3, at + 6))
    IN  [partial |-> partial, complete |-> complete, hdr |-> 1 + n, len |-> len]

\* the header and the content it declares all lie within the input
WholePacket(at, end) ==
    LET h == WireHeader(at, end)
    IN  h.complete /\ h.len <= end - at - h.hdr

\* the size of serialize's output for a content of len bytes
EncodedSize(len) == len + (IF len <= 191 THEN 2 ELSE IF len <= 8383 THEN 3 ELSE 6)

\* the stream holds one packet, and a call of next has been made on a Reader
OnePacketRead ==
    pc = "read" /\ Len(packets) = 1 /\ Len(results) >= 1

\* a Reader over the whole stream
WholeStream == pc = "read" /\ reader.end = Len(serialized)

----------------------------------------------------------------------------
(* Properties *)

\* C1: next on a Reader over serialize(Packet{tag, content}), tag in 1..63,
\* returns a Packet with that tag and that content and leaves 0 bytes.
C1_RoundTrip ==
    (OnePacketRead /\ WholeStream /\ packets[1].format = "New"
        /\ packets[1].tag \in 1 .. 63) =>
    LET p == packets[1]
        e == results[1]
    IN  /\ e.res.kind = "Packet"
        /\ e.res.tag = p.tag
        /\ SliceBytes(e.res.buffer) = Content(p.src, p.len)
        /\ e.after = reader.end

C1_Witness ==
    /\ OnePacketRead /\ WholeStream
    /\ packets[1].format = "New" /\ packets[1].tag = 63 /\ packets[1].len = 8384
    /\ results[1].res.kind = "Packet"
    /\ ReaderLen(reader) = 0

\* the framed packet of the stream is well formed: old format with tag 1..15,
\* or new format with a tag byte that carries a tag in 1..63
WellFormedPacket ==
    \/ packets[1].format = "Old" /\ packets[1].tag \in 1 .. 15
    \/ packets[1].format = "New" /\ WireTag(serialized[1]) \in 1 .. 63

\* C2 as stated: next on a Reader over any prefix of a well-formed framed
\* packet that is at least one byte short fails with PrematureEOF.
C2_AnyShortPrefixFails ==
    (OnePacketRead /\ WellFormedPacket /\ reader.end < Len(serialized)) =>
    results[1].res = Err("PrematureEOF")

\* C2 amended: next on a Reader over any nonempty prefix of a well-formed
\* framed packet that is at least one byte short fails with PrematureEOF; over
\* the empty prefix it returns end-of-stream.
C2_NonemptyShortPrefixFails ==
    (OnePacketRead /\ WellFormedPacket /\ reader.end < Len(serialized)) =>
    IF reader.end >= 1
    THEN results[1].res = Err("PrematureEOF")
    ELSE results[1].res = OkNone

C2_Witness ==
    /\ OnePacketRead
    /\ packets[1].format = "Old" /\ packets[1].sel = 2 /\ packets[1].len = 192
    /\ reader.end = Len(serialized) - 1
    /\ results[1].res = Err("PrematureEOF")

\* the call met a tag byte (bit 7 set) that carries the reserved tag 0
ReservedTagCall(e) ==
    MetByte(e) /\ FirstByte(e) >= 128 /\ WireTag(FirstByte(e)) = 0

\* C3 as stated: a first byte with bit 7 set and tag 0 makes next fail with
\* BadTag, whatever bytes follow.
C3_ReservedTagIsBadTag ==
    \A i \in Calls : ReservedTagCall(results[i]) => results[i].res = Err("BadTag")

\* C3 amended: a first byte with bit 7 set and tag 0 makes next fail, never
\* return a Packet: with PartialLength when the length form is unsupported,
\* with PrematureEOF when the length field or the declared content is cut
\* short, and with BadTag when header and content are all there.
C3_ReservedTagRejected ==
    \A i \in Calls :
        LET e == results[i]
            h == WireHeader(e.before, reader.end)
        IN  ReservedTagCall(e) =>
            /\ e.res.kind = "Err"
            /\ e.res.err = IF h.partial THEN "PartialLength"
                           ELSE IF WholePacket(e.before, reader.end) THEN "BadTag"
                           ELSE "PrematureEOF"

C3_Witness ==
    \E i \in Calls :
        /\ ReservedTagCall(results[i])
        /\ FirstByte(results[i]) = 192
        /\ results[i].res = Err("BadTag")
        /\ results[i].after > results[i].before + 2

\* C4: an old-format tag byte with length selector 3, and a new-format header
\* with a keybyte in 224..254, make next fail with PartialLength whatever the
\* tag and the bytes that follow, with only the tag byte (old) or the tag
\* byte and the keybyte (new) consumed.
C4_UnsupportedLength ==
    \A i \in Calls :
        LET e == results[i]
        IN  MetByte(e) =>
            /\ (FirstByte(e) >= 128 /\ FirstByte(e) < 192 /\ FirstByte(e) % 4 = 3) =>
                   (e.res = Err("PartialLength") /\ e.after = e.before + 1)
            /\ (FirstByte(e) >= 192 /\ e.before + 2 <= reader.end
                    /\ serialized[e.before + 2] \in 224 .. 254) =>
                   (e.res = Err("PartialLength") /\ e.after = e.before + 2)

C4_Witness ==
    /\ Len(results) >= 2
    /\ Len(serialized) > 3
    /\ serialized[1] = 147 /\ results[1].res = Err("PartialLength")
    /\ serialized[2] = 193 /\ serialized[3] = 224
    /\ results[2].before = 1 /\ results[2].res = Err("PartialLength")

\* C5: next returns end-of-stream exactly when no byte remains at the call,
\* and then the cursor does not move.
C5_EndOfStream ==
    \A i \in Calls :
        LET e == results[i]
        IN  /\ (e.res.kind = "None") <=> (e.before = reader.end)
            /\ (e.res.kind = "None") => (e.after = e.before /\ e.res = OkNone)

C5_Witness ==
    /\ Len(results) >= 2
    /\ results[1].res.kind = "Packet"
    /\ results[2].res = OkNone
    /\ reader.pos = reader.end /\ reader.end > 0

\* every packet of the stream was framed by serialize with a tag in 1..63
SerializedStream ==
    \A i \in 1 .. Len(packets) :
        packets[i].format = "New" /\ packets[i].tag \in 1 .. 63

\* C6: over serialize(p1) ++ ... ++ serialize(pn), the i-th call of next
\* returns pi and moves the cursor by the encoded size of pi, from where the
\* call before left it; the call after the n-th returns end-of-stream.
C6_StreamOrder ==
    (WholeStream /\ SerializedStream) =>
    \A i \in Calls :
        LET e == results[i]
        IN  /\ e.before = (IF i = 1 THEN 0 ELSE results[i - 1].after)
            /\ IF i <= Len(packets)
               THEN /\ e.res.kind = "Packet"
                    /\ e.res.tag = packets[i].tag
                    /\ SliceBytes(e.res.buffer) = Content(packets[i].src, packets[i].len)
                    /\ e.after = e.before + EncodedSize(packets[i].len)
                    /\ e.res.buffer.off + e.res.buffer.len = e.after
               ELSE e.res = OkNone /\ e.after = reader.end /\ e.before = reader.end

C6_Witness ==
    /\ WholeStream /\ SerializedStream
    /\ Len(packets) = 2 /\ Len(results) = 3
    /\ packets[1].tag = 63 /\ packets[1].len = 192
    /\ packets[2].tag = 1 /\ packets[2].len = 1
    /\ results[1].res.kind = "Packet" /\ results[2].res.kind = "Packet"
    /\ results[3].res = OkNone

C8_DecodedPacket ==
    \A i \in Calls :
        LET e == results[i]
            h == WireHeader(e.before, reader.end)
        IN  e.res.kind = "Packet" =>
            /\ MetByte(e) /\ FirstByte(e) >= 128
            /\ e.res.tag \in 1 .. 63
            /\ e.res.tag = WireTag(FirstByte(e))
            /\ FirstByte(e) < 192 => (e.res.tag \in 1 .. 15 /\ h.hdr \in {2, 3, 5})
            /\ WholePacket(e.before, reader.end)
            /\ e.res.buffer = [off |-> e.before + h.hdr, len |-> h.len]
            /\ e.res.buffer.off + e.res.buffer.len <= reader.end
            /\ e.after = e.before + h.hdr + h.len

C8_Witness ==
    /\ Len(results) >= 1 /\ Len(serialized) >= 1
    /\ serialized[1] = 146
    /\ results[1].res.kind = "Packet" /\ results[1].res.tag = 4
    /\ results[1].res.buffer = [off |-> 5, len |-> 2]
    /\ reader.pos = 7 /\ reader.end > 7

\* a call failed with PrematureEOF and next was called again
RetryAfterTruncation(i) ==
    i + 1 <= Len(results) /\ results[i].res = Err("PrematureEOF")

\* C9 as stated: after a truncation failure, a retry on the same Reader
\* returns neither a Packet nor end-of-stream.
C9_RetryCannotSucceed ==
    \A i \in Calls : RetryAfterTruncation(i) => results[i + 1].res.kind = "Err"

\* C9 amended: after a truncation failure the bytes the failed call consumed
\* (the tag byte at least) stay consumed; the retry resumes at the first
\* unread byte, returns end-of-stream exactly when none is left, and a Packet
\* it returns lies wholly in the bytes the failed call left unread.
C9_RetryResumesAfterFailure ==
    \A i \in Calls : RetryAfterTruncation(i) =>
        LET f == results[i]
            e == results[i + 1]
        IN  /\ f.after > f.before
            /\ e.before = f.after
            /\ (e.res.kind = "None") <=> (f.after = reader.end)
            /\ e.res.kind = "Packet" =>
                   (e.res.buffer.off >= f.after + 2 /\ WholePacket(f.after, reader.end))

C9_Witness ==
    \E i \in Calls :
        /\ RetryAfterTruncation(i)
        /\ results[i + 1].res.kind = "Packet"

\* the calls that did not return end-of-stream
Consuming == {i \in Calls : results[i].res.kind # "None"}

\* C10: a call of next that does not return end-of-stream leaves fewer bytes
\* unread (a Packet takes at least 2, a failure at least the tag byte, which is
\* not given back), so at most n calls on an n-byte input return a Packet and
\* among the first n+1 calls one returns end-of-stream or fails.
C10_Progress ==
    /\ \A i \in Calls :
           LET e == results[i]
           IN  /\ e.before = (IF i = 1 THEN 0 ELSE results[i - 1].after)
               /\ e.after <= reader.end
               /\ e.res.kind = "Packet" => e.after >= e.before + 2
               /\ e.res.kind = "Err" => e.after >= e.before + 1
               /\ e.res.kind = "None" => e.after = e.before
    /\ Cardinality(Consuming) <= reader.pos
    /\ reader.pos <= reader.end
    /\ Len(results) >= reader.end + 1 =>
           \E i \in 1 .. reader.end + 1 : results[i].res.kind # "Packet"

C10_Witness ==
    /\ reader.end = 4 /\ Len(results) = 3
    /\ results[1].res.kind = "Packet" /\ results[1].after = 2
    /\ results[2].res.kind = "Packet" /\ results[2].after = 4
    /\ results[3].res = OkNone

====
